---- MODULE Spec2Model ----
(***************************************************************************)
(* A model of the link-relation resolver of semantic-link (filter.ts):     *)
(* the normalisation of a relation input into selectors (makeSelectors),   *)
(* the field matcher (matchParameter), the link matcher (matchSingle), the *)
(* weighted filter (filterLinks), the dispatch on the link source (filter) *)
(* and the accessors built on it (matches, getUri, getTitle); and of the   *)
(* requests that http.ts makes on the resolved link (link, tryLink, get,   *)
(* tryGet, put, post, patch, del).                                         *)
(*                                                                         *)
(* JavaScript values are tagged records; a string is a tuple of            *)
(* characters, so that a regular expression can search inside it.          *)
(***************************************************************************)
EXTENDS Integers, Sequences, FiniteSets, TLC

VARIABLES source, rels, mediaType, defaultValue, op, result, http, caller, showLevel, calls

vars == <<source, rels, mediaType, defaultValue, op, result, http, caller, showLevel,
         calls>>

----------------------------------------------------------------------------
(* Bounds of the model *)

\* longest link list of a source
MaxLinks == 3
\* longest relation array
MaxSelectors == 2

\* the longest candidate string and regular expression literal given to matchParameter
MaxChars == 2
\* the callers that call the matcher in turn
MaxCallers == 2

----------------------------------------------------------------------------
(* JavaScript values *)

Undefined == [kind |-> "undefined"]
Null == [kind |-> "null"]
Str(s) == [kind |-> "string", s |-> s]
Num(n) == [kind |-> "number", n |-> n]
Bool(b) == [kind |-> "boolean", b |-> b]
\* a regular expression: a literal, optionally anchored at the start (^) and the end ($)
RegExp(lit, atStart, atEnd) == [kind |-> "regexp", lit |-> lit, atStart |-> atStart, atEnd |-> atEnd]
\* an object read through the fields rel, mediaType, title and links; an absent field is Undefined
Obj(r, m, t, l) == [kind |-> "object", rel |-> r, mediaType |-> m, title |-> t, links |-> l]
Arr(items) == [kind |-> "array", items |-> items]

\* the characters of the strings of the model
EmptyString == << >>
Star == <<"*">>
StarSlashStar == <<"*", "/", "*">>

\* JavaScript's ToBoolean
Truthy(v) ==
    CASE v.kind = "undefined" -> FALSE
      [] v.kind = "null" -> FALSE
      [] v.kind = "string" -> v.s # EmptyString
      [] v.kind = "number" -> v.n # 0
      [] v.kind = "boolean" -> v.b
      [] OTHER -> TRUE

\* a || b
OrElse(a, b) == IF Truthy(a) THEN a ELSE b

\* String.prototype.match(regexp) # null: the regular expression matches somewhere in s
RegExpMatches(s, re) ==
    \E i \in 0..(Len(s) - Len(re.lit)) :
        /\ SubSeq(s, i + 1, i + Len(re.lit)) = re.lit
        /\ re.atStart => i = 0
        /\ re.atEnd => i + Len(re.lit) = Len(s)

----------------------------------------------------------------------------
(* interfaces.ts and filter.ts: links, selectors, outcomes of a call *)

\* a Link object; an absent field is Undefined
Link(r, h, ty, ti) == [kind |-> "link", rel |-> r, href |-> h, type |-> ty, title |-> ti]

\* a LinkSelector { rel, mediaType, title }
LinkSelector(r, m, t) == Obj(r, m, t, Undefined)

\* the weight of a link that matches no selector
MaxWeight == 99999

UnsupportedSelector == "Unsupported link relationship selector"

\* the outcome of a call: a returned value or a thrown Error, and the call made to the
\* logger meanwhile ("none", "error" or "debug")
Returned(v) == [threw |-> FALSE, error |-> "", value |-> v, log |-> "none"]
Threw(msg) == [threw |-> TRUE, error |-> msg, value |-> Undefined, log |-> "none"]
Logged(outcome, call) == [outcome EXCEPT !.log = call]

\* a === b, for the primitive values of the model (objects are never identical to a string)
StrictEquals(a, b) ==
    /\ a.kind = b.kind
    /\ a.kind \in {"undefined", "null", "string", "number", "boolean"}
    /\ a = b

\* x == null
isNullOrUndefined(x) == x.kind \in {"undefined", "null"}

instanceOfLinkSelector(item) ==
    IF isNullOrUndefined(item) \/ StrictEquals(item, Str(EmptyString))
    THEN FALSE
    ELSE Truthy(item) /\ item.kind = "object" /\ item.rel.kind # "undefined"

instanceOfLinkedRepresentation(object) ==
    /\ Truthy(object)
    /\ object.kind # "string"
    /\ object.kind = "object"
    /\ object.links.kind = "array"

\* matchParameter that finds a match string anywhere in the link string, as a regular
\* expression does
matchParameterContains(linkString, matchString) ==
    \/ /\ Truthy(linkString)
       /\ matchString.kind = "regexp"
       /\ RegExpMatches(linkString.s, matchString)
    \/ StrictEquals(matchString, Str(Star))
    \/ StrictEquals(matchString, Str(StarSlashStar))
    \/ StrictEquals(linkString, Str(StarSlashStar))
    \/ StrictEquals(linkString, matchString)
    \/ /\ linkString.kind = "string"
       /\ matchString.kind = "string"
       /\ matchString.s # EmptyString
       /\ RegExpMatches(linkString.s, RegExp(matchString.s, FALSE, FALSE))

\* matchParameter without the wildcard '*' of the match string
matchParameterNoStar(linkString, matchString) ==
    \/ /\ Truthy(linkString)
       /\ matchString.kind = "regexp"
       /\ RegExpMatches(linkString.s, matchString)
    \/ StrictEquals(matchString, Str(StarSlashStar))
    \/ StrictEquals(linkString, Str(StarSlashStar))
    \/ StrictEquals(linkString, matchString)

\* matchParameter whose regular expression has to match the whole candidate
matchParameterAnchored(linkString, matchString) ==
    \/ /\ Truthy(linkString)
       /\ matchString.kind = "regexp"
       /\ linkString.s = matchString.lit
    \/ StrictEquals(matchString, Str(Star))
    \/ StrictEquals(matchString, Str(StarSlashStar))
    \/ StrictEquals(linkString, Str(StarSlashStar))
    \/ StrictEquals(linkString, matchString)

\* matchParameter that gives an empty candidate to the regular expression too
matchParameterOnEmpty(linkString, matchString) ==
    \/ /\ linkString.kind = "string"
       /\ matchString.kind = "regexp"
       /\ RegExpMatches(linkString.s, matchString)
    \/ StrictEquals(matchString, Str(Star))
    \/ StrictEquals(matchString, Str(StarSlashStar))
    \/ StrictEquals(linkString, Str(StarSlashStar))
    \/ StrictEquals(linkString, matchString)

matchParameter(linkString, matchString) ==
    \/ /\ Truthy(linkString)
       /\ matchString.kind = "regexp"
       /\ RegExpMatches(linkString.s, matchString)
    \/ StrictEquals(matchString, Str(Star))
    \/ StrictEquals(matchString, Str(StarSlashStar))
    \/ StrictEquals(linkString, Str(StarSlashStar))
    \/ StrictEquals(linkString, matchString)
    \/ /\ matchString.kind # "null"
       /\ ~StrictEquals(matchString, Str(StarSlashStar))
       /\ ~StrictEquals(matchString, Str(Star))
       /\ StrictEquals(linkString, matchString)

\* matchSingle that lets a link without a type pass any media type
matchSingleUntypedFallback(link, selector) ==
    /\ matchParameter(link.rel, selector.rel)
    /\ \/ isNullOrUndefined(selector.title)
       \/ matchParameter(OrElse(link.title, Str(EmptyString)), selector.title)
    /\ \/ isNullOrUndefined(selector.mediaType)
       \/ ~Truthy(link.type)
       \/ matchParameter(OrElse(link.type, Str(EmptyString)), selector.mediaType)

\* matchSingle that takes the title '' of a selector for no title constraint
matchSingleTitleOptional(link, selector) ==
    /\ matchParameter(link.rel, selector.rel)
    /\ \/ ~Truthy(selector.title)
       \/ matchParameter(OrElse(link.title, Str(EmptyString)), selector.title)
    /\ \/ isNullOrUndefined(selector.mediaType)
       \/ matchParameter(OrElse(link.type, Str(EmptyString)), selector.mediaType)

matchSingle(link, selector) ==
    IF matchParameter(link.rel, selector.rel)
    THEN LET titleIsAMatchOrNotRequired ==
                 \/ isNullOrUndefined(selector.title)
                 \/ matchParameter(OrElse(link.title, Str(EmptyString)), selector.title)
             mediaTypeIsAMatchOrNotRequired ==
                 \/ isNullOrUndefined(selector.mediaType)
                 \/ matchParameter(OrElse(link.type, Str(EmptyString)), selector.mediaType)
         IN  titleIsAMatchOrNotRequired /\ mediaTypeIsAMatchOrNotRequired
    ELSE FALSE

\* the selector made of one string or regular expression of the relation input
legacySelector(item, mt) == LinkSelector(item, mt, Undefined)

\* makeSelectors that puts the mediaType argument, when given, on structured selectors too
makeSelectorsApplyingMediaType(rs, mt) ==
    LET apply(item) ==
            IF item.kind \in {"string", "regexp"} THEN legacySelector(item, mt)
            ELSE IF isNullOrUndefined(mt) THEN item
            ELSE [item EXCEPT !.mediaType = mt]
    IN  IF rs.kind \in {"string", "regexp"} \/ instanceOfLinkSelector(rs)
        THEN Returned(<<apply(rs)>>)
        ELSE IF /\ rs.kind = "array"
                /\ \A i \in 1..Len(rs.items) :
                       \/ rs.items[i].kind \in {"string", "regexp"}
                       \/ instanceOfLinkSelector(rs.items[i])
        THEN Returned([i \in 1..Len(rs.items) |-> apply(rs.items[i])])
        ELSE Threw(UnsupportedSelector)

\* makeSelectors that drops what it does not support instead of throwing
makeSelectorsLenient(rs, mt) ==
    LET supported(item) ==
            item.kind \in {"string", "regexp"} \/ instanceOfLinkSelector(item)
        select(item) ==
            IF item.kind \in {"string", "regexp"} THEN legacySelector(item, mt) ELSE item
        RECURSIVE selectAll(_)
        selectAll(items) ==
            IF items = << >> THEN << >>
            ELSE IF supported(Head(items))
                 THEN <<select(Head(items))>> \o selectAll(Tail(items))
                 ELSE selectAll(Tail(items))
    IN  IF supported(rs) THEN Returned(<<select(rs)>>)
        ELSE IF rs.kind = "array" THEN Returned(selectAll(rs.items))
        ELSE Returned(<< >>)

\* makeSelectors that gives the media type to a single relation only, not to the strings
\* and regular expressions of an array
makeSelectorsUntypedInArray(rs, mt) ==
    IF rs.kind \in {"string", "regexp"} THEN Returned(<<legacySelector(rs, mt)>>)
    ELSE IF instanceOfLinkSelector(rs) THEN Returned(<<rs>>)
    ELSE IF /\ rs.kind = "array"
            /\ \A i \in 1..Len(rs.items) :
                   \/ rs.items[i].kind \in {"string", "regexp"}
                   \/ instanceOfLinkSelector(rs.items[i])
    THEN Returned([i \in 1..Len(rs.items) |->
              IF rs.items[i].kind \in {"string", "regexp"}
              THEN legacySelector(rs.items[i], Undefined)
              ELSE rs.items[i]])
    ELSE Threw(UnsupportedSelector)

\* makeSelectors: the selectors, or the Error thrown for an unsupported input
makeSelectors(rs, mt) ==
    IF rs.kind = "string" THEN Returned(<<legacySelector(rs, mt)>>)
    ELSE IF rs.kind = "regexp" THEN Returned(<<legacySelector(rs, mt)>>)
    ELSE IF instanceOfLinkSelector(rs) THEN Returned(<<rs>>)
    ELSE IF rs.kind = "array"
    THEN IF \A i \in 1..Len(rs.items) : instanceOfLinkSelector(rs.items[i])
         THEN Returned(rs.items)
         ELSE IF \A i \in 1..Len(rs.items) :
                     \/ rs.items[i].kind \in {"string", "regexp"}
                     \/ instanceOfLinkSelector(rs.items[i])
              THEN Returned([i \in 1..Len(rs.items) |->
                        IF rs.items[i].kind \in {"string", "regexp"}
                        THEN legacySelector(rs.items[i], mt)
                        ELSE rs.items[i]])
              ELSE Threw(UnsupportedSelector)
    ELSE Threw(UnsupportedSelector)

\* a validity check that forgets the href
linkIsValidRelOnly(link) == Truthy(link.rel)

\* a link is valid when it has an href and a rel
linkIsValid(link) == Truthy(link.href) /\ Truthy(link.rel)

\* the loop over the selectors, from selectorIndex on: the index of the first selector
\* the link matches, MaxWeight when there is none
RECURSIVE firstMatch(_, _, _)
firstMatch(link, selectors, selectorIndex) ==
    IF selectorIndex < Len(selectors)
    THEN IF matchSingle(link, selectors[selectorIndex + 1])
         THEN selectorIndex
         ELSE firstMatch(link, selectors, selectorIndex + 1)
    ELSE MaxWeight

\* a weight that is looked for from the second selector on
weightOfAfterFirst(link, selectors) ==
    IF linkIsValid(link) THEN firstMatch(link, selectors, 1) ELSE MaxWeight

\* the weight of a link: MaxWeight when it is not valid or matches no selector
weightOf(link, selectors) ==
    IF linkIsValid(link) THEN firstMatch(link, selectors, 0) ELSE MaxWeight

\* a weighting that does not stop at the first selector a link matches: one [link,
\* weight] for every selector that the link matches
weighEverySelector(links, selectors) ==
    LET RECURSIVE from(_, _)
        from(link, k) ==
            IF k > Len(selectors) THEN << >>
            ELSE (IF matchSingle(link, selectors[k])
                  THEN <<[link |-> link, weight |-> k - 1]>>
                  ELSE << >>) \o from(link, k + 1)
        matchesOf(link) ==
            IF linkIsValid(link) /\ from(link, 1) # << >>
            THEN from(link, 1)
            ELSE <<[link |-> link, weight |-> MaxWeight]>>
        RECURSIVE every(_)
        every(ls) == IF ls = << >> THEN << >> ELSE matchesOf(Head(ls)) \o every(Tail(ls))
    IN  every(links)

\* [link, weight] of every link, in the order of the links
weigh(links, selectors) ==
    [i \in 1..Len(links) |-> [link |-> links[i], weight |-> weightOf(links[i], selectors)]]

\* Array.prototype.filter(match => match.weight < MaxWeight)
RECURSIVE keepMatched(_)
keepMatched(ms) ==
    IF ms = << >> THEN << >>
    ELSE IF Head(ms).weight < MaxWeight
         THEN <<Head(ms)>> \o keepMatched(Tail(ms))
         ELSE keepMatched(Tail(ms))

\* a sort step that leaves the elements where they are: no sort
insertAtEnd(sorted, m) == Append(sorted, m)

\* a sort step that puts m before the elements that compare equal to it: not stable
insertBeforeEqual(sorted, m) ==
    LET k == Cardinality({i \in 1..Len(sorted) : sorted[i].weight - m.weight < 0})
    IN  SubSeq(sorted, 1, k) \o <<m>> \o SubSeq(sorted, k + 1, Len(sorted))

\* one step of the sort: m goes after the elements that do not compare greater than it
insertByWeight(sorted, m) ==
    LET k == Cardinality({i \in 1..Len(sorted) : sorted[i].weight - m.weight <= 0})
    IN  SubSeq(sorted, 1, k) \o <<m>> \o SubSeq(sorted, k + 1, Len(sorted))

\* Array.prototype.sort((l, r) => l.weight - r.weight), a stable sort
RECURSIVE sortByWeight(_)
sortByWeight(ms) ==
    IF ms = << >> THEN << >>
    ELSE insertByWeight(sortByWeight(SubSeq(ms, 1, Len(ms) - 1)), ms[Len(ms)])

filterLinks(links, rs, mt) ==
    LET selectors == makeSelectors(rs, mt)
    IN  IF selectors.threw THEN Threw(selectors.error)
        ELSE LET sorted == sortByWeight(keepMatched(weigh(links, selectors.value)))
             IN  Returned([i \in 1..Len(sorted) |-> sorted[i].link])

\* a run of a long relation array: times copies of a string or regular expression
Repeated(item, times) == [item |-> item, times |-> times]

\* the loop over the selectors of a relation array given by its runs: the index of the
\* first selector the link matches, counted over all the copies, or MaxWeight
RECURSIVE firstMatchInRuns(_, _, _)
firstMatchInRuns(link, runs, selectorIndex) ==
    IF runs = << >> THEN MaxWeight
    ELSE IF /\ Head(runs).times > 0
            /\ matchSingle(link, legacySelector(Head(runs).item, Undefined))
    THEN selectorIndex
    ELSE firstMatchInRuns(link, Tail(runs), selectorIndex + Head(runs).times)

\* filterLinks on a relation array given by its runs
filterLinksInRuns(links, runs) ==
    LET weighed == [i \in 1..Len(links) |->
                       [link |-> links[i],
                        weight |-> IF linkIsValid(links[i])
                                   THEN firstMatchInRuns(links[i], runs, 0)
                                   ELSE MaxWeight]]
        sorted == sortByWeight(keepMatched(weighed))
    IN  Returned([i \in 1..Len(sorted) |-> sorted[i].link])

\* filterLinks that sorts the links of the caller themselves, before it drops any
linksSortedInPlace(links, rs, mt) ==
    LET selectors == makeSelectors(rs, mt)
    IN  IF selectors.threw THEN links
        ELSE LET sorted == sortByWeight(weigh(links, selectors.value))
             IN  [i \in 1..Len(sorted) |-> sorted[i].link]

\* the links of the caller after filterLinks: map and filter return new arrays, and sort
\* works in place on the array that filter returned, which the last map copies
linksAfterFilterLinks(links, rs, mt) == links

filterRepresentation(representation, relationshipType, mt) ==
    IF Truthy(representation.links)
    THEN filterLinks(representation.links.items, relationshipType, mt)
    ELSE Returned(<< >>)

\* filter without its last return: a source of no known shape is read as a list
filterUnguarded(arg, relationshipType, mt) ==
    IF arg.kind = "array" THEN filterLinks(arg.items, relationshipType, mt)
    ELSE IF instanceOfLinkedRepresentation(arg)
    THEN filterRepresentation(arg, relationshipType, mt)
    ELSE Threw("TypeError")

\* filter: the links of a JSON source. The DOM sources ('HEAD', an Element) are read by
\* the browser and are no input of the model.
filter(arg, relationshipType, mt) ==
    IF arg.kind = "array" THEN filterLinks(arg.items, relationshipType, mt)
    ELSE IF instanceOfLinkedRepresentation(arg)
    THEN filterRepresentation(arg, relationshipType, mt)
    ELSE Returned(<< >>)

\* the source after filter, and after matches, getUri and getTitle, which call filter
sourceAfterFilter(arg, relationshipType, mt) ==
    IF arg.kind = "array"
    THEN Arr(linksAfterFilterLinks(arg.items, relationshipType, mt))
    ELSE IF instanceOfLinkedRepresentation(arg) /\ Truthy(arg.links)
    THEN [arg EXCEPT !.links =
              Arr(linksAfterFilterLinks(arg.links.items, relationshipType, mt))]
    ELSE arg

matches(links, relationshipType, mt) ==
    LET found == filter(links, relationshipType, mt)
    IN  IF found.threw THEN found ELSE Returned(Bool(Len(found.value) > 0))

\* makeNotFoundMessage: the message counts the links of filter(links, '*', '*')
makeNotFoundMessage(links, relationshipType, mt) ==
    LET allLinks == filter(links, Str(Star), Str(Star))
    IN  IF allLinks.threw THEN allLinks ELSE Returned(Num(Len(allLinks.value)))

\* logError: log.error for a null source, else log.debug of the message
logError(links, relationshipType, mt) ==
    IF isNullOrUndefined(links) THEN Logged(Returned(Undefined), "error")
    ELSE LET message == makeNotFoundMessage(links, relationshipType, mt)
         IN  IF message.threw THEN message ELSE Logged(Returned(Undefined), "debug")

\* getUri that returns '' when no link is found
getUriEmptyString(links, relationshipType, mt, dflt) ==
    LET found == filter(links, relationshipType, mt)
        missed == logError(links, relationshipType, mt)
    IN  IF found.threw THEN found
        ELSE IF Len(found.value) > 0 THEN Returned(found.value[1].href)
        ELSE IF missed.threw THEN missed
        ELSE Logged(Returned(Str(EmptyString)), missed.log)

\* getUri that returns the href of the last link found
getUriLast(links, relationshipType, mt, dflt) ==
    LET found == filter(links, relationshipType, mt)
        missed == logError(links, relationshipType, mt)
    IN  IF found.threw THEN found
        ELSE IF Len(found.value) > 0 THEN Returned(found.value[Len(found.value)].href)
        ELSE IF missed.threw THEN missed
        ELSE Logged(Returned(dflt), missed.log)

getUri(links, relationshipType, mt, dflt) ==
    LET found == filter(links, relationshipType, mt)
        missed == logError(links, relationshipType, mt)
    IN  IF found.threw THEN found
        ELSE IF Len(found.value) > 0 THEN Returned(found.value[1].href)
        ELSE IF missed.threw THEN missed
        ELSE Logged(Returned(dflt), missed.log)

\* getTitle that returns the title of the link as it is
getTitleAsIs(links, relationshipType, mt) ==
    LET found == filter(links, relationshipType, mt)
        missed == logError(links, relationshipType, mt)
    IN  IF found.threw THEN found
        ELSE IF Len(found.value) > 0 THEN Returned(found.value[1].title)
        ELSE IF missed.threw THEN missed
        ELSE Logged(Returned(Str(EmptyString)), missed.log)

getTitle(links, relationshipType, mt) ==
    LET found == filter(links, relationshipType, mt)
        missed == logError(links, relationshipType, mt)
    IN  IF found.threw THEN found
        ELSE IF Len(found.value) > 0
             THEN Returned(OrElse(found.value[1].title, Str(EmptyString)))
        ELSE IF missed.threw THEN missed
        ELSE Logged(Returned(Str(EmptyString)), missed.log)

----------------------------------------------------------------------------
(* http.ts: the requests made on the link that filter resolves *)

\* the object {}
EmptyObject == Obj(Undefined, Undefined, Undefined, Undefined)

\* a cancel token of axios: an object with a promise
CancelToken == [kind |-> "token"]

\* an Error with a message, and the message of link
Error(msg) == [kind |-> "error", message |-> msg]
NotSupported == "The resource doesn't support the required interface"

\* an AxiosError: the Error of a request that failed
AxiosError(config) == [kind |-> "error", message |-> "Request failed", config |-> config]

\* a promise: pending on the request of a config, or settled
Pending(config) == [kind |-> "promise", state |-> "pending", value |-> config]
Fulfilled(v) == [kind |-> "promise", state |-> "fulfilled", value |-> v]
Rejected(v) == [kind |-> "promise", state |-> "rejected", value |-> v]

\* an axios request config; contentType is the header 'Content-Type', Undefined when the
\* config has no headers
Config(token, data, verb, url, contentType) ==
    [cancelToken |-> token, data |-> data, method |-> verb, url |-> url,
     contentType |-> contentType]

\* the options of a call: the fields of the config that the caller overrides
Options(fields) == [kind |-> "options", fields |-> fields]

\* { ...config, ...options }
Override(config, options) ==
    IF options.kind = "options"
    THEN [f \in DOMAIN config |->
             IF f \in DOMAIN options.fields THEN options.fields[f] ELSE config[f]]
    ELSE config

\* an AxiosResponse; the response of tryLink has no config
Response(data, status, config) ==
    [kind |-> "response", data |-> data, headers |-> << >>, status |-> status,
     config |-> config]

\* what a call of http.ts did: its outcome (the promise returned, or an Error thrown), the
\* requests handed to axios, and the arguments link or tryLink was called with
Did(outcome, requests) ==
    [outcome |-> outcome, requests |-> requests, verb |-> "", mediaType |-> Undefined,
     data |-> Undefined, cancellable |-> Undefined, options |-> Undefined]

isCancellable(arg) == Truthy(arg) /\ arg.kind = "token"

isLinkedRepresentation(arg) ==
    Truthy(arg) /\ arg.kind = "object" /\ arg.links.kind # "undefined"

isMediaType(arg) == Truthy(arg) /\ arg.kind = "string"

\* axios(config): the request is handed to axios, which returns a promise that is
\* settled when the server has answered
axios(config) == Pending(config)

\* the promise of axios once the server has answered: fulfilled with the response, or
\* rejected with an AxiosError (a status outside 2xx, no answer, a cancelled request)
settled(promise, answer) ==
    IF answer = "response"
    THEN Fulfilled(Response(EmptyObject, 200, promise.value))
    ELSE Rejected(AxiosError(promise.value))

\* httpRequest that sends the Content-Type without a body too
httpRequestAlwaysTyped(cancellable, data, verb, item, mt, options) ==
    LET config ==
            Override(
                Config(cancellable, data, verb, item.href,
                       IF Truthy(mt) THEN mt ELSE Undefined),
                options)
    IN  Did(Returned(axios(config)), <<config>>)

httpRequest(cancellable, data, verb, item, mt, options) ==
    LET config ==
            Override(
                Config(cancellable, data, verb, item.href,
                       IF Truthy(data) /\ Truthy(mt) THEN mt ELSE Undefined),
                options)
    IN  Did(Returned(axios(config)), <<config>>)

\* the last link that filter returns, instead of the first
lastOf(found) == IF Len(found) > 0 THEN found[Len(found)] ELSE Undefined

\* const [item] = filter(...): the first link, undefined when there is none
firstOf(found) == IF Len(found) > 0 THEN found[1] ELSE Undefined

\* the arguments of link and tryLink, kept with what the call did
WithArguments(did, verb, mt, data, cancellable, options) ==
    [did EXCEPT !.verb = verb, !.mediaType = mt, !.data = data,
                !.cancellable = cancellable, !.options = options]

\* link that answers a missing link as tryLink does, with a response without data
linkResolving(links, relationshipType, mt, verb, data, cancellable, options) ==
    LET found == filter(links, relationshipType, mt)
        item == firstOf(found.value)
        did == IF found.threw THEN Did(found, << >>)
               ELSE IF Truthy(item) /\ Truthy(item.href)
               THEN httpRequest(cancellable, data, verb, item, mt, options)
               ELSE Did(Returned(Fulfilled(Response(Undefined, 200, Undefined))), << >>)
    IN  WithArguments(did, verb, mt, data, cancellable, options)

\* link: the request on the first link of filter, or a promise rejected with an Error;
\* an Error that filter throws is thrown by link
link(links, relationshipType, mt, verb, data, cancellable, options) ==
    LET found == filter(links, relationshipType, mt)
        item == firstOf(found.value)
        did == IF found.threw THEN Did(found, << >>)
               ELSE IF Truthy(item) /\ Truthy(item.href)
               THEN httpRequest(cancellable, data, verb, item, mt, options)
               ELSE Did(Returned(Rejected(Error(NotSupported))), << >>)
    IN  WithArguments(did, verb, mt, data, cancellable, options)

\* tryLink that rejects a missing link as link does
tryLinkRejecting(links, relationshipType, mt, verb, data, cancellable, dflt, options) ==
    LET found == filter(links, relationshipType, mt)
        item == firstOf(found.value)
        did == IF found.threw THEN Did(found, << >>)
               ELSE IF Truthy(item) /\ Truthy(item.href)
               THEN httpRequest(cancellable, data, verb, item, mt, options)
               ELSE Did(Returned(Rejected(Error(NotSupported))), << >>)
    IN  WithArguments(did, verb, mt, data, cancellable, options)

\* tryLink: the request on the first link of filter, or a promise fulfilled with a
\* response that holds the default value
tryLink(links, relationshipType, mt, verb, data, cancellable, dflt, options) ==
    LET found == filter(links, relationshipType, mt)
        item == firstOf(found.value)
        did == IF found.threw THEN Did(found, << >>)
               ELSE IF Truthy(item) /\ Truthy(item.href)
               THEN httpRequest(cancellable, data, verb, item, mt, options)
               ELSE Did(Returned(Fulfilled(Response(dflt, 200, Undefined))), << >>)
    IN  WithArguments(did, verb, mt, data, cancellable, options)

\* get(links, relationshipType, mediaType?, cancellable?): a cancel token in the place
\* of the media type is moved to its place
get(links, relationshipType, mt, cancellable) ==
    IF isCancellable(mt)
    THEN link(links, relationshipType, Undefined, "GET", EmptyObject, mt, Undefined)
    ELSE link(links, relationshipType, mt, "GET", EmptyObject, cancellable, Undefined)

\* tryGet that does not look for a default value in the place of the cancel token
tryGetTwoShifts(links, relationshipType, mt, cancellable, dflt) ==
    LET first == IF isCancellable(mt)
                 THEN [m |-> Undefined, c |-> mt, d |-> cancellable]
                 ELSE [m |-> mt, c |-> cancellable, d |-> dflt]
        second == IF isLinkedRepresentation(first.m)
                  THEN [m |-> Undefined, c |-> Undefined, d |-> first.m]
                  ELSE first
    IN  tryLink(links, relationshipType, second.m, "GET", EmptyObject, second.c, second.d,
                Undefined)

\* tryGet(links, relationshipType, mediaType?, cancellable?, defaultValue?): the three
\* shifts of its arguments, one after the other
tryGet(links, relationshipType, mt, cancellable, dflt) ==
    LET first == IF isCancellable(mt)
                 THEN [m |-> Undefined, c |-> mt, d |-> cancellable]
                 ELSE [m |-> mt, c |-> cancellable, d |-> dflt]
        second == IF isLinkedRepresentation(first.m)
                  THEN [m |-> Undefined, c |-> Undefined, d |-> first.m]
                  ELSE first
        third == IF isLinkedRepresentation(second.c)
                 THEN [m |-> second.m, c |-> Undefined, d |-> second.c]
                 ELSE second
    IN  tryLink(links, relationshipType, third.m, "GET", EmptyObject, third.c, third.d,
                Undefined)

\* put, post and patch(links, relationshipType, mediaType, data?): without a fourth
\* argument the third is the data
put(links, relationshipType, mt, data) ==
    IF data.kind = "undefined"
    THEN link(links, relationshipType, Undefined, "PUT", mt, Undefined, Undefined)
    ELSE link(links, relationshipType, mt, "PUT", data, Undefined, Undefined)

post(links, relationshipType, mt, data) ==
    IF data.kind = "undefined"
    THEN link(links, relationshipType, Undefined, "POST", mt, Undefined, Undefined)
    ELSE link(links, relationshipType, mt, "POST", data, Undefined, Undefined)

patch(links, relationshipType, mt, data) ==
    IF data.kind = "undefined"
    THEN link(links, relationshipType, Undefined, "PATCH", mt, Undefined, Undefined)
    ELSE link(links, relationshipType, mt, "PATCH", data, Undefined, Undefined)

\* del(links, relationshipType, mediaType?, data?): a third argument that is no media
\* type is the data
del(links, relationshipType, mt, data) ==
    IF ~isMediaType(mt)
    THEN link(links, relationshipType, Undefined, "DELETE", mt, Undefined, Undefined)
    ELSE link(links, relationshipType, mt, "DELETE", data, Undefined, Undefined)

----------------------------------------------------------------------------
(* The inputs of the model *)

sA == <<"a">>
sB == <<"b">>
sAB == <<"a", "b">>
sX == <<"x">>
sY == <<"y">>
sT == <<"t">>

Href(n) == Str(<<"/", n>>)

\* usable links: rel a, b or ab, with and without a type and a title
link1 == Link(Str(sA), Href("1"), Str(sX), Str(sT))
link2 == Link(Str(sA), Href("2"), Undefined, Undefined)
link3 == Link(Str(sB), Href("3"), Str(sY), Undefined)
link4 == Link(Str(sAB), Href("4"), Str(StarSlashStar), Str(sT))
\* unusable links: href empty, href absent, rel empty, rel absent
link5 == Link(Str(sA), Str(EmptyString), Str(sX), Undefined)
link6 == Link(Str(sA), Undefined, Undefined, Undefined)
link7 == Link(Str(EmptyString), Href("7"), Undefined, Undefined)
link8 == Link(Undefined, Href("8"), Str(sX), Undefined)

\* a link whose rel is the wildcard '*/*'
link9 == Link(Str(StarSlashStar), Href("9"), Undefined, Undefined)

UsableLinks == {link1, link2, link3, link4}
UnusableLinks == {link5, link6, link7, link8}

\* the lists of at most n distinct links of the set
RECURSIVE LinkLists(_, _)
LinkLists(links, n) ==
    IF n = 0 THEN {<< >>}
    ELSE LET shorter == LinkLists(links, n - 1)
         IN  shorter \cup
             {Append(q, l) : q \in {s \in shorter : Len(s) = n - 1}, l \in links}

Distinct(s) == \A i, j \in 1..Len(s) : i # j => s[i] # s[j]

DistinctLinkLists(links, n) == {s \in LinkLists(links, n) : Distinct(s)}

\* an object without a links field, and one whose links is not an array
noLinks == Obj(Undefined, Undefined, Undefined, Undefined)
linksNotAnArray == Obj(Undefined, Undefined, Undefined, Num(5))

\* sources that hold no list of links
MalformedSources == {Null, Undefined, Str(<<"h">>), noLinks, linksNotAnArray}

\* a LinkedRepresentation { links }
Representation(links) == Obj(Undefined, Undefined, Undefined, Arr(links))

\* the representation { links: [] }
emptyLinks == Representation(<< >>)

\* structured selectors
selectorTitle == LinkSelector(RegExp(sB, FALSE, FALSE), Undefined, Str(sT))
selectorType == LinkSelector(Str(sA), Str(sX), Undefined)
selectorNoTitle == LinkSelector(Str(sA), Undefined, Str(EmptyString))

\* the elements of a relation array: strings and a structured selector
RelationItems == {Str(sA), Str(sB), selectorTitle}

RECURSIVE RelationLists(_)
RelationLists(n) ==
    IF n = 0 THEN {<< >>}
    ELSE LET shorter == RelationLists(n - 1)
         IN  shorter \cup {Append(q, r) : q \in {s \in shorter : Len(s) = n - 1},
                                          r \in RelationItems}

\* relation inputs that are one string, regular expression or structured selector
SingleRelations ==
    {Str(sA), Str(sB), Str(Star), Str(EmptyString),
     RegExp(sA, FALSE, FALSE), RegExp(sA, TRUE, TRUE),
     selectorTitle, selectorType, selectorNoTitle}

\* arrays with a regular expression, of structured selectors only, with an unsupported
\* element (a number, null) first and last
SomeArrays ==
    {Arr(<<RegExp(sA, FALSE, FALSE), Str(sB)>>),
     Arr(<<selectorType, selectorTitle>>),
     Arr(<<selectorTitle, selectorType>>),
     Arr(<<Str(sA), Num(5)>>),
     Arr(<<Null, Str(sA)>>)}

\* relation inputs that are no string, regular expression, selector or array
UnsupportedRelations == {Num(5), Null, Undefined, noLinks}

MediaTypes == {Undefined, Str(EmptyString), Str(Star), Str(StarSlashStar), Str(sX)}

DefaultValues == {Undefined, Href("d")}

\* usable links in every order, against every relation array
OrderingInputs ==
    /\ source \in {Representation(s) : s \in DistinctLinkLists(UsableLinks, MaxLinks)}
    /\ rels \in {Arr(r) : r \in RelationLists(MaxSelectors)}
    /\ mediaType \in {Undefined, Str(sX)}

\* usable and unusable links, against single relations
ValidityInputs ==
    /\ source \in {Representation(s) :
                      s \in DistinctLinkLists(UsableLinks \cup UnusableLinks, MaxLinks - 1)}
    /\ rels \in {Str(sA), Str(Star), RegExp(sA, FALSE, FALSE), selectorNoTitle}
    /\ mediaType \in {Undefined, Str(Star), Str(sX)}

\* every shape of source and of relation input, against every media type
ShapeInputs ==
    /\ source \in {Arr(l) : l \in DistinctLinkLists(UsableLinks, MaxLinks - 1)}
                    \cup {Representation(l) : l \in DistinctLinkLists(UsableLinks, MaxLinks - 1)}
                    \cup MalformedSources
    /\ rels \in SingleRelations \cup SomeArrays \cup UnsupportedRelations
    /\ mediaType \in MediaTypes

\* a link of rel '*/*' among links of rel 'a' and 'ab', against strings, arrays of strings
\* and a string with a regular expression that matches it
WildcardRelInputs ==
    /\ source \in {Representation(s) :
                      s \in DistinctLinkLists({link2, link4, link9}, MaxLinks - 1)}
    /\ rels \in {Str(sA), Str(sB), Str(StarSlashStar), Arr(<<Str(sB), Str(sA)>>),
                 Arr(<<Str(sA), RegExp(sA, FALSE, FALSE)>>)}
    /\ mediaType = Undefined

\* the links of the calls of http.ts: with and without a type, of another relation, and
\* without an href
HttpLinks == {link1, link2, link3, link5}

\* what the caller sends: nothing, an object, a string (a uri-list)
Body == Obj(Undefined, Undefined, Str(sT), Undefined)
DataValues == {Undefined, Body, Str(<<"u">>)}

Cancellables == {Undefined, CancelToken}

\* the options of a call of link and tryLink: none, another url, another Content-Type
OptionValues ==
    {Undefined, Options([url |-> Href("o")]), Options([contentType |-> Str(sY)])}

HttpDefaultValues == {Undefined, emptyLinks}

\* the sources, relations and media types of the calls of http.ts
HttpInputs ==
    /\ source \in {Representation(s) : s \in DistinctLinkLists(HttpLinks, MaxLinks - 1)}
                    \cup {Null, EmptyObject}
    /\ rels \in {Str(sA), RegExp(sB, FALSE, FALSE), Arr(<<Str(sB), Str(sA)>>), selectorType,
                 Num(5)}
    /\ mediaType \in {Undefined, Str(EmptyString), Str(Star), Str(sX)}

\* the arguments a caller gives, with those left out (undefined) skipped: the later
\* arguments move to the left
RECURSIVE Given(_)
Given(args) ==
    IF args = << >> THEN << >>
    ELSE IF Head(args).kind = "undefined" THEN Append(Given(Tail(args)), Undefined)
    ELSE <<Head(args)>> \o Given(Tail(args))

\* the optional arguments of a call, at their declared places or moved to the left
Placed(args) == {args, Given(args)}

NoResult == Returned(Undefined)

----------------------------------------------------------------------------
(* logger.ts: the log level, which all the loggers share *)

LogLevel == [Trace |-> 1, Debug |-> 2, Info |-> 3, Warn |-> 4, Error |-> 5, Fatal |-> 6]

\* ConsoleLogger.log: a message of the level reaches the console
shown(level, show) == level >= show

\* the level of log.error and of log.debug
levelOf(call) == IF call = "error" THEN LogLevel.Error ELSE LogLevel.Debug

\* what a call leaves: its outcome, and whether its log message reached the console
ranWith(outcome, show) ==
    [outcome |-> outcome,
     written |-> outcome.log # "none" /\ shown(levelOf(outcome.log), show)]

\* the outcome of a call that gives up its result when the log level hides its message
hushed(outcome, show) ==
    IF outcome.log # "none" /\ ~shown(levelOf(outcome.log), show) THEN NoResult
    ELSE outcome

\* a call that gives up its result when the log level hides its message
runHushed(fn, args, show) ==
    CASE fn = "filter" ->
             ranWith(hushed(filter(args.source, args.rels, args.mediaType), show), show)
      [] fn = "matches" ->
             ranWith(hushed(matches(args.source, args.rels, args.mediaType), show), show)
      [] fn = "getUri" ->
             ranWith(hushed(getUri(args.source, args.rels, args.mediaType,
                                   args.defaultValue), show), show)
      [] fn = "getTitle" ->
             ranWith(hushed(getTitle(args.source, args.rels, args.mediaType), show), show)

\* a call of filter, matches, getUri or getTitle under a log level: what it returns or
\* throws, and whether its log message reached the console
run(fn, args, show) ==
    CASE fn = "filter" -> ranWith(filter(args.source, args.rels, args.mediaType), show)
      [] fn = "matches" -> ranWith(matches(args.source, args.rels, args.mediaType), show)
      [] fn = "getUri" -> ranWith(getUri(args.source, args.rels, args.mediaType,
                                         args.defaultValue), show)
      [] fn = "getTitle" -> ranWith(getTitle(args.source, args.rels, args.mediaType), show)

\* the callers of the matcher
Callers == 1..MaxCallers

\* before the callers call
NoCalls ==
    [c \in Callers |-> [op |-> "none", args |-> Undefined,
                        ran |-> [outcome |-> NoResult, written |-> FALSE]]]

----------------------------------------------------------------------------
(* The calls *)

\* before a call of http.ts
NoCall == Did(NoResult, << >>)

\* the cancel token and the data that the caller of a function of http.ts passes
Arguments(cancellable, data) == [cancellable |-> cancellable, data |-> data]

NoArguments == Arguments(Undefined, Undefined)

Init ==
    /\ OrderingInputs \/ ValidityInputs \/ ShapeInputs \/ WildcardRelInputs
    /\ defaultValue = Undefined
    /\ op = "none"
    /\ result = NoResult
    /\ http = NoCall
    /\ caller = NoArguments
    /\ showLevel = LogLevel.Info
    /\ calls = NoCalls

\* filter(source, rels, mediaType)
Filter ==
    /\ op' = "filter"
    /\ result' = filter(source, rels, mediaType)
    /\ source' = sourceAfterFilter(source, rels, mediaType)
    /\ UNCHANGED <<rels, mediaType, defaultValue, http, caller, showLevel, calls>>

\* matches(source, rels, mediaType)
Matches ==
    /\ op' = "matches"
    /\ result' = matches(source, rels, mediaType)
    /\ source' = sourceAfterFilter(source, rels, mediaType)
    /\ UNCHANGED <<rels, mediaType, defaultValue, http, caller, showLevel, calls>>

\* getUri(source, rels, mediaType, d)
GetUri ==
    \E d \in DefaultValues :
        /\ op' = "getUri"
        /\ defaultValue' = d
        /\ result' = getUri(source, rels, mediaType, d)
        /\ source' = sourceAfterFilter(source, rels, mediaType)
        /\ UNCHANGED <<rels, mediaType, http, caller, showLevel, calls>>

\* getTitle(source, rels, mediaType)
GetTitle ==
    /\ op' = "getTitle"
    /\ result' = getTitle(source, rels, mediaType)
    /\ source' = sourceAfterFilter(source, rels, mediaType)
    /\ UNCHANGED <<rels, mediaType, defaultValue, http, caller, showLevel, calls>>

\* filter(result, rels, mediaType): the links filter returned are filtered again
FilterAgain ==
    /\ op \in {"filter", "filterAgain"}
    /\ ~result.threw
    /\ op' = "filterAgain"
    /\ result' = filter(Arr(result.value), rels, mediaType)
    /\ UNCHANGED <<source, rels, mediaType, defaultValue, http, caller, showLevel, calls>>

Next == Filter \/ Matches \/ GetUri \/ GetTitle \/ FilterAgain

Spec == Init /\ [][Next]_vars

----------------------------------------------------------------------------
(* The calls of http.ts. The functions keep no state: a behaviour is one call and the   *)
(* answer of the server to the request it made.                                         *)

HttpInit ==
    /\ HttpInputs
    /\ defaultValue = Undefined
    /\ op = "none"
    /\ result = NoResult
    /\ http = NoCall
    /\ caller = NoArguments
    /\ showLevel = LogLevel.Info
    /\ calls = NoCalls

\* link(source, rels, mediaType, verb, data, cancellable, options)
CallLink ==
    /\ op = "none"
    /\ op' = "link"
    /\ \E verb \in {"GET", "POST"}, data \in DataValues, cancellable \in Cancellables,
          options \in OptionValues :
           /\ caller' = Arguments(cancellable, data)
           /\ http' = link(source, rels, mediaType, verb, data, cancellable, options)
    /\ UNCHANGED <<source, rels, mediaType, defaultValue, result, showLevel, calls>>

\* tryLink(source, rels, mediaType, 'GET', data, cancellable, defaultValue, options)
CallTryLink ==
    /\ op = "none"
    /\ op' = "tryLink"
    /\ \E data \in DataValues, dflt \in HttpDefaultValues, options \in OptionValues :
           /\ defaultValue' = dflt
           /\ caller' = Arguments(CancelToken, data)
           /\ http' = tryLink(source, rels, mediaType, "GET", data, CancelToken, dflt,
                              options)
    /\ UNCHANGED <<source, rels, mediaType, result, showLevel, calls>>

\* get(source, rels, mediaType, cancellable) and get(source, rels, cancellable)
CallGet ==
    /\ op = "none"
    /\ op' = "get"
    /\ \E cancellable \in Cancellables :
           \E args \in Placed(<<mediaType, cancellable>>) :
               /\ caller' = Arguments(cancellable, Undefined)
               /\ http' = get(source, rels, args[1], args[2])
    /\ UNCHANGED <<source, rels, mediaType, defaultValue, result, showLevel, calls>>

\* tryGet(source, rels, mediaType, cancellable, defaultValue), and the same with the
\* arguments that are left out skipped
CallTryGet ==
    /\ op = "none"
    /\ op' = "tryGet"
    /\ \E cancellable \in Cancellables, dflt \in HttpDefaultValues :
           \E args \in Placed(<<mediaType, cancellable, dflt>>) :
               /\ defaultValue' = dflt
               /\ caller' = Arguments(cancellable, Undefined)
               /\ http' = tryGet(source, rels, args[1], args[2], args[3])
    /\ UNCHANGED <<source, rels, mediaType, result, showLevel, calls>>

\* put(source, rels, mediaType, data) and put(source, rels, data)
CallPut ==
    /\ op = "none"
    /\ op' = "put"
    /\ \E data \in DataValues :
           \E args \in Placed(<<mediaType, data>>) :
               /\ caller' = Arguments(Undefined, data)
               /\ http' = put(source, rels, args[1], args[2])
    /\ UNCHANGED <<source, rels, mediaType, defaultValue, result, showLevel, calls>>

\* post(source, rels, mediaType, data) and post(source, rels, data)
CallPost ==
    /\ op = "none"
    /\ op' = "post"
    /\ \E data \in DataValues :
           \E args \in Placed(<<mediaType, data>>) :
               /\ caller' = Arguments(Undefined, data)
               /\ http' = post(source, rels, args[1], args[2])
    /\ UNCHANGED <<source, rels, mediaType, defaultValue, result, showLevel, calls>>

\* patch(source, rels, mediaType, data) and patch(source, rels, data)
CallPatch ==
    /\ op = "none"
    /\ op' = "patch"
    /\ \E data \in DataValues :
           \E args \in Placed(<<mediaType, data>>) :
               /\ caller' = Arguments(Undefined, data)
               /\ http' = patch(source, rels, args[1], args[2])
    /\ UNCHANGED <<source, rels, mediaType, defaultValue, result, showLevel, calls>>

\* del(source, rels, mediaType, data) and del(source, rels, data)
CallDel ==
    /\ op = "none"
    /\ op' = "del"
    /\ \E data \in DataValues :
           \E args \in Placed(<<mediaType, data>>) :
               /\ caller' = Arguments(Undefined, data)
               /\ http' = del(source, rels, args[1], args[2])
    /\ UNCHANGED <<source, rels, mediaType, defaultValue, result, showLevel, calls>>

\* the server answers the request, or the request fails: the promise of axios, which is
\* the promise the call returned, is settled
Respond ==
    /\ ~http.outcome.threw
    /\ http.outcome.value.kind = "promise"
    /\ http.outcome.value.state = "pending"
    /\ \E answer \in {"response", "error"} :
           http' = [http EXCEPT !.outcome.value = settled(http.outcome.value, answer)]
    /\ UNCHANGED <<source, rels, mediaType, defaultValue, op, result, caller, showLevel, calls>>

HttpNext ==
    \/ CallLink \/ CallTryLink \/ CallGet \/ CallTryGet
    \/ CallPut \/ CallPost \/ CallPatch \/ CallDel
    \/ Respond

HttpSpec == HttpInit /\ [][HttpNext]_vars

----------------------------------------------------------------------------
(* The functions of the matcher alone: matchParameter on one field of a link and of a   *)
(* selector, matchSingle on a link and a selector, makeSelectors on a relation array.   *)

\* the strings over a and b of at most n characters
RECURSIVE Strings(_)
Strings(n) ==
    IF n = 0 THEN {EmptyString}
    ELSE LET shorter == Strings(n - 1)
         IN  shorter \cup {Append(s, c) : s \in shorter, c \in {"a", "b"}}

\* the values of a field of a link: absent, empty, a string, '*' and '*/*'
Candidates == {Undefined, Str(Star), Str(StarSlashStar)} \cup {Str(s) : s \in Strings(MaxChars)}

\* the values of a field of a selector: a string, '*', '*/*', or a regular expression,
\* also one that accepts the empty string (the empty literal: /(?:)/, and /^$/)
Patterns ==
    {Str(Star), Str(StarSlashStar)}
        \cup {Str(s) : s \in Strings(MaxChars)}
        \cup {RegExp(s, atStart, atEnd) : s \in Strings(MaxChars), atStart \in BOOLEAN,
                                          atEnd \in BOOLEAN}

\* a link and a selector that hold the same candidate and the same pattern in each field
FieldInputs ==
    \E c \in Candidates, p \in Patterns :
        /\ source = Link(c, Href("1"), c, c)
        /\ rels = LinkSelector(p, p, p)

\* links with and without a title and a type, selectors with and without a constraint
\* on the title and on the media type
SelectorInputs ==
    /\ source \in {Link(r, Href("1"), ty, ti) :
                      r \in {Str(sA), Str(sB)},
                      ty \in {Undefined, Str(sX), Str(StarSlashStar)},
                      ti \in {Undefined, Str(EmptyString), Str(sT), Str(StarSlashStar)}}
    /\ rels \in {LinkSelector(r, m, t) :
                    r \in {Str(sA), RegExp(sB, FALSE, FALSE)},
                    m \in {Undefined, Null, Str(sX), Str(EmptyString)},
                    t \in {Undefined, Null, Str(EmptyString), Str(sT),
                           RegExp(sT, FALSE, FALSE)}}

\* the lists of at most n of the items
RECURSIVE ListsOf(_, _)
ListsOf(items, n) ==
    IF n = 0 THEN {<< >>}
    ELSE LET shorter == ListsOf(items, n - 1)
         IN  shorter \cup {Append(q, r) : q \in shorter, r \in items}

\* relation arrays of strings, regular expressions and structured selectors, with and
\* without a media type argument
ArrayInputs ==
    /\ source = emptyLinks
    /\ rels \in {Arr(r) : r \in ListsOf({Str(sA), RegExp(sB, FALSE, FALSE), selectorTitle,
                                          selectorType}, MaxSelectors)}
    /\ mediaType \in {Undefined, Str(sX)}

MatcherInit ==
    /\ \/ (FieldInputs \/ SelectorInputs) /\ mediaType = Undefined
       \/ ArrayInputs
    /\ defaultValue = Undefined
    /\ op = "none"
    /\ result = NoResult
    /\ http = NoCall
    /\ caller = NoArguments
    /\ showLevel = LogLevel.Info
    /\ calls = NoCalls

\* matchParameter(link.rel, selector.rel)
MatchRel ==
    /\ source.kind = "link"
    /\ op' = "matchRel"
    /\ result' = Returned(Bool(matchParameter(source.rel, rels.rel)))
    /\ UNCHANGED <<source, rels, mediaType, defaultValue, http, caller, showLevel, calls>>

\* matchParameter(link.title || '', selector.title)
MatchTitle ==
    /\ source.kind = "link"
    /\ op' = "matchTitle"
    /\ result' = Returned(Bool(matchParameter(OrElse(source.title, Str(EmptyString)),
                                              rels.title)))
    /\ UNCHANGED <<source, rels, mediaType, defaultValue, http, caller, showLevel, calls>>

\* matchParameter(link.type || '', selector.mediaType)
MatchType ==
    /\ source.kind = "link"
    /\ op' = "matchType"
    /\ result' = Returned(Bool(matchParameter(OrElse(source.type, Str(EmptyString)),
                                              rels.mediaType)))
    /\ UNCHANGED <<source, rels, mediaType, defaultValue, http, caller, showLevel, calls>>

\* matchSingle(link, selector)
MatchSingle ==
    /\ source.kind = "link"
    /\ op' = "matchSingle"
    /\ result' = Returned(Bool(matchSingle(source, rels)))
    /\ UNCHANGED <<source, rels, mediaType, defaultValue, http, caller, showLevel, calls>>

\* makeSelectors(rels, mediaType)
MakeSelectors ==
    /\ rels.kind = "array"
    /\ op' = "makeSelectors"
    /\ result' = makeSelectors(rels, mediaType)
    /\ UNCHANGED <<source, rels, mediaType, defaultValue, http, caller, showLevel, calls>>

MatcherNext == MatchRel \/ MatchTitle \/ MatchType \/ MatchSingle \/ MakeSelectors

MatcherSpec == MatcherInit /\ [][MatcherNext]_vars

----------------------------------------------------------------------------
(* Several callers and the log level: a call of filter, matches, getUri or getTitle is  *)
(* synchronous and runs to its end before the next call or setLogLevel begins.          *)

\* what the callers pass: a source with links and a relation that matches both, the same
\* source and a relation that matches none, and a null source
CallerArguments ==
    {[source |-> Representation(<<link1, link3>>), rels |-> Arr(<<Str(sB), Str(sA)>>),
      mediaType |-> Undefined, defaultValue |-> Href("d")],
     [source |-> Representation(<<link1, link3>>), rels |-> Str(sT),
      mediaType |-> Undefined, defaultValue |-> Href("d")],
     [source |-> Null, rels |-> Str(sB),
      mediaType |-> Undefined, defaultValue |-> Href("d")]}

ConcurrentInit ==
    /\ source = Undefined
    /\ rels = Undefined
    /\ mediaType = Undefined
    /\ defaultValue = Undefined
    /\ op = "none"
    /\ result = NoResult
    /\ http = NoCall
    /\ caller = NoArguments
    /\ showLevel = LogLevel.Info
    /\ calls = NoCalls

\* a caller calls filter, matches, getUri or getTitle
CallerCalls ==
    /\ \E c \in Callers, fn \in {"filter", "matches", "getUri", "getTitle"},
          args \in CallerArguments :
           calls' = [calls EXCEPT ![c] = [op |-> fn, args |-> args,
                                          ran |-> run(fn, args, showLevel)]]
    /\ UNCHANGED <<source, rels, mediaType, defaultValue, op, result, http, caller,
                   showLevel>>

\* setLogLevel(level)
SetLogLevel ==
    /\ \E level \in {LogLevel.Trace, LogLevel.Debug, LogLevel.Info, LogLevel.Warn,
                      LogLevel.Error, LogLevel.Fatal} :
           showLevel' = level
    /\ UNCHANGED <<source, rels, mediaType, defaultValue, op, result, http, caller, calls>>

ConcurrentNext == CallerCalls \/ SetLogLevel

ConcurrentSpec == ConcurrentInit /\ [][ConcurrentNext]_vars

----------------------------------------------------------------------------
(* Long relation arrays: the weight of a link is the index of the first selector it     *)
(* matches, which grows with the array.                                                 *)

\* the lengths of the first run of the relation array: short ones, and those that bring
\* the next selector to the index MaxWeight - 1, MaxWeight and MaxWeight + 1
RunLengths == {1, 2, MaxWeight - 1, MaxWeight, MaxWeight + 1}

\* relation arrays of n copies of a string and one more string
LongRelations ==
    {[kind |-> "runs", runs |-> <<Repeated(first, n), Repeated(last, 1)>>] :
        first \in {Str(sT), Str(sB)}, n \in RunLengths, last \in {Str(sA), Str(sB)}}

WeightInit ==
    /\ source \in {Representation(s) :
                      s \in DistinctLinkLists({link2, link3, link5}, MaxLinks - 1)}
    /\ rels \in LongRelations
    /\ mediaType = Undefined
    /\ defaultValue = Undefined
    /\ op = "none"
    /\ result = NoResult
    /\ http = NoCall
    /\ caller = NoArguments
    /\ showLevel = LogLevel.Info
    /\ calls = NoCalls

\* filter(source, rels) with a long relation array
FilterLong ==
    /\ op' = "filterLong"
    /\ result' = filterLinksInRuns(source.links.items, rels.runs)
    /\ UNCHANGED <<source, rels, mediaType, defaultValue, http, caller, showLevel, calls>>

WeightNext == FilterLong

WeightSpec == WeightInit /\ [][WeightNext]_vars

----------------------------------------------------------------------------
(* What the claims speak of *)

\* the list of links a source holds, empty for a malformed source
LinksOf(src) ==
    IF src.kind = "array" THEN src.items
    ELSE IF src.kind = "object" /\ src.links.kind = "array" THEN src.links.items
    ELSE << >>

\* the position of a link in a list of distinct links
PositionIn(list, aLink) == CHOOSE i \in 1..Len(list) : list[i] = aLink

\* the selectors of the call, when the relation input is supported
SelectorsOfCall == makeSelectors(rels, mediaType).value

\* the positions of the selectors a link matches
MatchingSelectors(aLink) ==
    {i \in 1..Len(SelectorsOfCall) : matchSingle(aLink, SelectorsOfCall[i])}

\* the position of the first selector a link matches
FirstSelector(aLink) ==
    CHOOSE i \in MatchingSelectors(aLink) : \A j \in MatchingSelectors(aLink) : i <= j

\* a link has a non-empty href and a non-empty rel
Usable(aLink) ==
    /\ aLink.href.kind = "string" /\ aLink.href.s # << >>
    /\ aLink.rel.kind = "string" /\ aLink.rel.s # << >>

\* a call to filter has returned a list of links
FilterReturned == op = "filter" /\ ~result.threw

NoUsableMatch ==
    \A i \in 1..Len(LinksOf(source)) :
        Usable(LinksOf(source)[i]) => MatchingSelectors(LinksOf(source)[i]) = {}

\* C3: filter never returns a link whose href or rel is absent or empty, whatever the
\* relation (the wildcard '*' too) and the media type; so getUri returns the default
\* value when no usable link matches.
C3_NoUnusableLink ==
    /\ (op \in {"filter", "filterAgain"} /\ ~result.threw) =>
           \A p \in 1..Len(result.value) : Usable(result.value[p])
    /\ (op = "getUri" /\ ~result.threw /\ NoUsableMatch) => result.value = defaultValue

\* the only link that matches has an empty href, and getUri returns the default
C3_Witness ==
    /\ op = "getUri"
    /\ LinksOf(source) = <<link5>>
    /\ MatchingSelectors(link5) # {}
    /\ defaultValue = Href("d")
    /\ result.value = Href("d")

\* C4: wildcard equivalence: filter returns the same with the media type undefined,
\* '*' and '*/*', for every source and every relation input.
C4_WildcardEquivalence ==
    (op = "filter" /\ mediaType \in {Undefined, Str(Star), Str(StarSlashStar)}) =>
        /\ result = filter(source, rels, Undefined)
        /\ result = filter(source, rels, Str(Star))
        /\ result = filter(source, rels, Str(StarSlashStar))

\* filter with '*' returned links of two types and a link without a type
C4_Witness ==
    /\ FilterReturned
    /\ mediaType = Str(Star)
    /\ \E p, q \in 1..Len(result.value) :
           /\ result.value[p].type = Undefined
           /\ result.value[q].type = Str(sX)

\* the relation input is one string or one regular expression
StringOrRegExpRelation == rels.kind \in {"string", "regexp"}

\* C5: an empty-string media type is wildcard-equivalent: with a string or regular
\* expression relation, filter with '' returns what it returns with undefined.
C5_EmptyMediaTypeIsWildcard ==
    (op = "filter" /\ mediaType = Str(EmptyString) /\ StringOrRegExpRelation) =>
        result = filter(source, rels, Undefined)

Structured(item) == item.kind = "object" /\ item.rel.kind \in {"string", "regexp"}

\* the relation input is one structured selector or an array of structured selectors
StructuredRelation ==
    \/ Structured(rels)
    \/ /\ rels.kind = "array"
       /\ \A i \in 1..Len(rels.items) : Structured(rels.items[i])

\* C7: a structured selector's own mediaType and title are authoritative: with one
\* structured selector, or an array of structured selectors only, filter returns the same
\* for every mediaType argument, and the selectors are the given ones in the given order.
C7_MediaTypeArgumentIgnored ==
    (op = "filter" /\ StructuredRelation) =>
        /\ \A m \in MediaTypes : filter(source, rels, m) = result
        /\ SelectorsOfCall = IF rels.kind = "array" THEN rels.items ELSE <<rels>>

\* a selector without a media type returns a link of another type than the argument's
C7_Witness ==
    /\ FilterReturned
    /\ rels = Arr(<<selectorTitle, selectorType>>)
    /\ mediaType = Str(sX)
    /\ LinksOf(source) = <<link1, link4>>
    /\ result.value = <<link4, link1>>

\* a value makeSelectors supports as a relation or as an element of a relation array
SupportedItem(item) == item.kind \in {"string", "regexp"} \/ Structured(item)

\* the relation input cannot be normalised
UnsupportedRelation ==
    /\ ~SupportedItem(rels)
    /\ rels.kind = "array" => \E i \in 1..Len(rels.items) : ~SupportedItem(rels.items[i])

\* one of filter, matches, getUri and getTitle was called
Called == op \in {"filter", "matches", "getUri", "getTitle"}

ThrewUnsupported ==
    result.threw /\ result.error = UnsupportedSelector /\ result.value = Undefined

\* C8, as claimed: an unsupported relation input makes filter, matches, getUri and
\* getTitle throw 'Unsupported link relationship selector', for any link source.
C8_UnsupportedAlwaysThrows ==
    (Called /\ UnsupportedRelation) => ThrewUnsupported

\* the source is an array or an object with an array of links
HoldsLinks(src) ==
    src.kind = "array" \/ (src.kind = "object" /\ src.links.kind = "array")

\* C8, amended: an unsupported relation input makes filter, matches, getUri and getTitle
\* throw 'Unsupported link relationship selector' for any source that is an array or a
\* representation with an array of links, and no partial result is returned.
C8_UnsupportedThrowsOnLinks ==
    (Called /\ UnsupportedRelation /\ HoldsLinks(source)) => ThrewUnsupported

\* an array with an unsupported element after a matching string makes getUri throw
C8_Witness ==
    /\ op = "getUri"
    /\ rels = Arr(<<Str(sA), Num(5)>>)
    /\ LinksOf(source) = <<link2>>
    /\ ThrewUnsupported

\* C9: a malformed source (null, undefined, a string, an object without links or whose
\* links is no array) degrades to no links without an exception, for every supported
\* relation: filter returns the empty list, matches false, getTitle '' and getUri the
\* default value.
C9_MalformedSourceHasNoLinks ==
    (Called /\ ~HoldsLinks(source) /\ ~UnsupportedRelation) =>
        /\ ~result.threw
        /\ op = "filter" => result.value = << >>
        /\ op = "matches" => result.value = Bool(FALSE)
        /\ op = "getTitle" => result.value = Str(EmptyString)
        /\ op = "getUri" => result.value = defaultValue

\* getUri on an object whose links is no array returns the default value
C9_Witness ==
    /\ op = "getUri"
    /\ source = linksNotAnArray
    /\ rels = Str(sA)
    /\ defaultValue = Href("d")
    /\ result = Logged(Returned(Href("d")), "debug")

\* C10, as claimed: filtering the result of filter again, with the same relation and
\* media type, returns the same links in the same order, for any source, relation input
\* and media type.
C10_Idempotent == [][op' = "filterAgain" => result' = result]_vars

\* C10, amended: filtering the result of filter again, with the same relation and media
\* type, returns the same links in the same order, for any source, any supported relation
\* input and any media type.
C10_IdempotentWhenSupported ==
    [][(op' = "filterAgain" /\ ~UnsupportedRelation) => result' = result]_vars

\* filter again returned three links that the first call had reordered
C10_Witness ==
    /\ op = "filterAgain"
    /\ ~result.threw
    /\ Len(result.value) = 3
    /\ result.value # LinksOf(source)
    /\ Len(LinksOf(source)) = 3

\* what a call returns when no link is found: the empty list, false, '', the default value
ReturnedNothing ==
    /\ ~result.threw
    /\ op = "filter" => result.value = << >>
    /\ op = "matches" => result.value = Bool(FALSE)
    /\ op = "getTitle" => result.value = Str(EmptyString)
    /\ op = "getUri" => result.value = defaultValue

\* C11, as claimed: for the representation { links: [] } and any relation input whatsoever,
\* filter returns the empty list, matches false, getTitle '' and getUri the default value.
C11_EmptyLinksAnyRelation ==
    (Called /\ source = emptyLinks) => ReturnedNothing

\* C11, amended: for the representation { links: [] } and any supported relation input (a
\* string, a regular expression, a structured selector or an array of these), filter
\* returns the empty list, matches false, getTitle '' and getUri the default value; with
\* any other relation input the call throws.
C11_EmptyLinksSupportedRelation ==
    (Called /\ source = emptyLinks) =>
        IF UnsupportedRelation THEN ThrewUnsupported ELSE ReturnedNothing

\* getUri on { links: [] } with an array of selectors returns the default value
C11_Witness ==
    /\ op = "getUri"
    /\ source = emptyLinks
    /\ rels = Arr(<<selectorType, selectorTitle>>)
    /\ defaultValue = Href("d")
    /\ result.value = Href("d")
    /\ ~result.threw

C13_GetTitleIsAString ==
    (op = "getTitle" /\ ~result.threw) =>
        LET found == filter(source, rels, mediaType).value
        IN  /\ result.value.kind = "string"
            /\ IF Len(found) = 0 THEN result.value = Str(EmptyString)
               ELSE IF found[1].title.kind = "string" THEN result.value = found[1].title
               ELSE result.value = Str(EmptyString)

\* getTitle returned '' for a link that has no title
C13_Witness ==
    /\ op = "getTitle"
    /\ LinksOf(source) = <<link2, link1>>
    /\ rels = Str(sA)
    /\ mediaType = Undefined
    /\ result.value = Str(EmptyString)
    /\ result.log = "none"

\* a function of http.ts was called
HttpCalled == op \in {"link", "tryLink", "get", "tryGet", "put", "post", "patch", "del"}

\* the call handed a request to axios
Requested == HttpCalled /\ Len(http.requests) > 0

\* the relation input of the call can be normalised, with the media type that reached link
SupportedForHttp == ~makeSelectors(rels, http.mediaType).threw

\* no usable link of the source matches a selector made of the relation input and the
\* media type that reached link
NoUsableMatchForHttp ==
    LET selectors == makeSelectors(rels, http.mediaType).value
    IN  \A i \in 1..Len(LinksOf(source)) :
            Usable(LinksOf(source)[i]) =>
                \A k \in 1..Len(selectors) : ~matchSingle(LinksOf(source)[i], selectors[k])

\* the options of the call override a field of the request
Overrides(field) ==
    http.options.kind = "options" /\ field \in DOMAIN http.options.fields

\* C14, as claimed: a call of link, tryLink, get, tryGet, put, post, patch or del hands at
\* most one request to axios, only when filter yields a link, and the url of the request
\* is the href of the first link of filter, which is what getUri returns.
C14_OneRequestOnFirstLink ==
    HttpCalled =>
        LET found == filter(source, rels, http.mediaType)
        IN  /\ Len(http.requests) <= 1
            /\ Len(http.requests) = 1 =>
                   /\ ~found.threw
                   /\ Len(found.value) > 0
                   /\ http.requests[1].url = found.value[1].href
                   /\ http.requests[1].url
                          = getUri(source, rels, http.mediaType, Undefined).value

\* C14, amended: a call of link, tryLink, get, tryGet, put, post, patch or del hands at
\* most one request to axios, only when filter yields a link, and the url of the request
\* is the href of the first link of filter, which is what getUri returns, unless the
\* options of link or tryLink give another url.
C14_OneRequestOnFirstLinkOrOptions ==
    HttpCalled =>
        LET found == filter(source, rels, http.mediaType)
        IN  /\ Len(http.requests) <= 1
            /\ Len(http.requests) = 1 =>
                   /\ ~found.threw
                   /\ Len(found.value) > 0
                   /\ IF Overrides("url")
                      THEN http.requests[1].url = http.options.fields.url
                      ELSE /\ http.requests[1].url = found.value[1].href
                           /\ http.requests[1].url
                                  = getUri(source, rels, http.mediaType, Undefined).value

\* post asked for 'b' before 'a': the request goes to the link of rel 'b', which stands
\* after the link of rel 'a' in the source
C14_Witness ==
    /\ op = "post"
    /\ rels = Arr(<<Str(sB), Str(sA)>>)
    /\ LinksOf(source) = <<link2, link3>>
    /\ Len(http.requests) = 1
    /\ http.requests[1].url = link3.href
    /\ http.requests[1].method = "POST"

C16_TryGetNeverFails ==
    (op = "tryGet" /\ SupportedForHttp) =>
        /\ ~http.outcome.threw
        /\ http.outcome.value.state # "rejected"

\* C17: when no usable link matches, tryLink and tryGet hand no request to axios and
\* return a promise fulfilled with a response whose data is the default value of the
\* caller, whose status is 200 and whose headers are empty.
C17_NoLinkIsTheDefaultValue ==
    (op \in {"tryLink", "tryGet"} /\ SupportedForHttp /\ NoUsableMatchForHttp) =>
        /\ http.requests = << >>
        /\ ~http.outcome.threw
        /\ http.outcome.value.state = "fulfilled"
        /\ http.outcome.value.value.data = defaultValue
        /\ http.outcome.value.value.status = 200
        /\ http.outcome.value.value.headers = << >>

\* tryGet with a media type that the only link does not have is fulfilled with the
\* default value { links: [] }
C17_Witness ==
    /\ op = "tryGet"
    /\ LinksOf(source) = <<link2>>
    /\ rels = Str(sA)
    /\ mediaType = Str(sX)
    /\ defaultValue = emptyLinks
    /\ http.requests = << >>
    /\ http.outcome.value = Fulfilled(Response(emptyLinks, 200, Undefined))

\* the link the request of the call was made on
ResolvedLink == filter(source, rels, http.mediaType).value[1]

\* C18, as claimed: the request uses the href of the resolved link as url and, when a
\* body is sent, the type of the resolved link, if it has one, as Content-Type.
C18_ContentTypeOfLink ==
    Requested =>
        /\ http.requests[1].url = ResolvedLink.href
        /\ Truthy(http.data) =>
               http.requests[1].contentType
                   = IF Truthy(ResolvedLink.type) THEN ResolvedLink.type ELSE Undefined

\* C18, amended: the request uses the href of the resolved link as url and, when a body
\* is sent and the call has a non-empty media type, that media type as Content-Type;
\* without a body or without a media type the request has no Content-Type, whatever the
\* type of the link; the options of link and tryLink override the url and the header.
C18_ContentTypeOfCall ==
    Requested =>
        /\ http.requests[1].url
               = IF Overrides("url") THEN http.options.fields.url ELSE ResolvedLink.href
        /\ http.requests[1].contentType
               = IF Overrides("contentType") THEN http.options.fields.contentType
                 ELSE IF Truthy(http.data) /\ Truthy(http.mediaType) THEN http.mediaType
                 ELSE Undefined

\* post with a body and the media type 'x' on a link of type 'x' sends 'x' as Content-Type
C18_Witness ==
    /\ op = "post"
    /\ LinksOf(source) = <<link1>>
    /\ http.mediaType = Str(sX)
    /\ http.data = Body
    /\ Len(http.requests) = 1
    /\ http.requests[1].url = link1.href
    /\ http.requests[1].contentType = link1.type

\* the strings of a relation input that is one string or an array of strings only
RelationStrings ==
    IF rels.kind = "string" THEN {rels}
    ELSE {rels.items[i] : i \in 1..Len(rels.items)}

\* the relation input is one string or an array of strings, none of them a wildcard
ExactStringRelation ==
    /\ \/ rels.kind = "string"
       \/ /\ rels.kind = "array"
          /\ \A i \in 1..Len(rels.items) : rels.items[i].kind = "string"
    /\ Str(Star) \notin RelationStrings
    /\ Str(StarSlashStar) \notin RelationStrings

NamesRelOf(aLink) ==
    \/ rels = aLink.rel
    \/ /\ rels.kind = "array"
       /\ \A i \in 1..Len(rels.items) : SupportedItem(rels.items[i])
       /\ \E i \in 1..Len(rels.items) : rels.items[i] = aLink.rel

\* C20: when the source holds a link with a non-empty href whose rel is exactly the
\* non-empty string R, matches(source, R) without a media type is true, wherever the link
\* stands in the source and whether R is given alone or as any element of a relation array.
C20_ExactRelMatches ==
    (op = "matches" /\ mediaType = Undefined) =>
        \A i \in 1..Len(LinksOf(source)) :
            (Usable(LinksOf(source)[i]) /\ NamesRelOf(LinksOf(source)[i]))
                => result = Returned(Bool(TRUE))

\* the rel of the last link of the source is the last element of the relation array, and
\* no other link of the source matches
C20_Witness ==
    /\ op = "matches"
    /\ mediaType = Undefined
    /\ rels = Arr(<<selectorTitle, Str(sA)>>)
    /\ LinksOf(source) = <<link3, link2>>
    /\ result = Returned(Bool(TRUE))

\* a call of matchParameter on the rel, the title or the type of the link
MatchedField == op \in {"matchRel", "matchTitle", "matchType"}

\* the candidate value of that call: the field of the link, '' for an absent title or type
Candidate ==
    CASE op = "matchRel" -> source.rel
      [] op = "matchTitle" -> OrElse(source.title, Str(EmptyString))
      [] op = "matchType" -> OrElse(source.type, Str(EmptyString))

\* the pattern of that call: the field of the selector
Pattern ==
    CASE op = "matchRel" -> rels.rel
      [] op = "matchTitle" -> rels.title
      [] op = "matchType" -> rels.mediaType

\* C21: matchParameter is one policy for rel, title and media type: it is true exactly
\* when the pattern is a regular expression that matches somewhere in a non-empty
\* candidate, or the pattern is '*' or '*/*', or the candidate is '*/*', or candidate and
\* pattern are equal strings; so a candidate '*/*' matches every pattern, and a regular
\* expression never matches an empty or absent candidate.
C21_OnePolicy ==
    MatchedField =>
        /\ result.value.b <=>
               \/ /\ Pattern.kind = "regexp"
                  /\ Candidate.kind = "string"
                  /\ Candidate.s # EmptyString
                  /\ RegExpMatches(Candidate.s, Pattern)
               \/ Pattern \in {Str(Star), Str(StarSlashStar)}
               \/ Candidate = Str(StarSlashStar)
               \/ (Candidate.kind = "string" /\ Pattern = Candidate)
        /\ Candidate = Str(StarSlashStar) => result.value.b
        /\ (Pattern.kind = "regexp" /\ Candidate \in {Undefined, Str(EmptyString)})
               => ~result.value.b

\* a regular expression that accepts the empty string does not match an absent type
C21_Witness ==
    /\ op = "matchType"
    /\ source.type = Undefined
    /\ Pattern = RegExp(EmptyString, FALSE, FALSE)
    /\ ~result.value.b

\* a call of matchParameter with a regular expression and a non-empty candidate
RegExpOnNonEmpty ==
    /\ MatchedField
    /\ Pattern.kind = "regexp"
    /\ Candidate.kind = "string"
    /\ Candidate.s # EmptyString

\* C22, as stated: with a regular expression and a non-empty candidate, the match is
\* true exactly when the regular expression matches somewhere in the candidate, for every
\* candidate.
C22_RegExpSearchOnly ==
    RegExpOnNonEmpty => (result.value.b <=> RegExpMatches(Candidate.s, Pattern))

\* C22, amended: with a regular expression and a non-empty candidate other than '*/*',
\* the match is true exactly when the regular expression matches somewhere in the
\* candidate; the candidate '*/*' matches every regular expression.
C22_RegExpSearchUnlessWildcard ==
    RegExpOnNonEmpty =>
        IF Candidate = Str(StarSlashStar)
        THEN result.value.b
        ELSE result.value.b <=> RegExpMatches(Candidate.s, Pattern)

\* the regular expression /b/ matches the candidate 'ab', which it does not start
C22_Witness ==
    /\ op = "matchRel"
    /\ Candidate = Str(sAB)
    /\ Pattern = RegExp(sB, FALSE, FALSE)
    /\ result.value.b

\* the rel of the link matches the rel of the selector
RelHolds == matchParameter(source.rel, rels.rel)

\* the selector asks for no title, or the title of the link ('' when absent) matches
TitleHolds ==
    \/ rels.title \in {Null, Undefined}
    \/ matchParameter(OrElse(source.title, Str(EmptyString)), rels.title)

\* the selector asks for no media type, or the type of the link ('' when absent) matches
TypeHolds ==
    \/ rels.mediaType \in {Null, Undefined}
    \/ matchParameter(OrElse(source.type, Str(EmptyString)), rels.mediaType)

\* C23, as stated: a link matches a selector exactly when its rel matches and the title
\* constraint and the media type constraint hold; a selector with the title '' selects
\* links with no title and rejects every link with a non-empty title.
C23_EmptyTitleRejectsEveryTitle ==
    op = "matchSingle" =>
        /\ result.value.b <=> (RelHolds /\ TitleHolds /\ TypeHolds)
        /\ rels.title = Str(EmptyString) =>
               /\ (~Truthy(source.title) /\ RelHolds /\ TypeHolds) => result.value.b
               /\ Truthy(source.title) => ~result.value.b

\* C23, amended: a link matches a selector exactly when its rel matches and the title
\* constraint and the media type constraint hold; a selector with the title '' selects
\* links with no title and rejects every link with a non-empty title other than '*/*'.
C23_EmptyTitleRejectsOtherTitles ==
    op = "matchSingle" =>
        /\ result.value.b <=> (RelHolds /\ TitleHolds /\ TypeHolds)
        /\ rels.title = Str(EmptyString) =>
               /\ (~Truthy(source.title) /\ RelHolds /\ TypeHolds) => result.value.b
               /\ (Truthy(source.title) /\ source.title # Str(StarSlashStar))
                      => ~result.value.b

\* the selector { rel: 'a', title: '' } rejects a link of rel 'a' with the title 't'
C23_Witness ==
    /\ op = "matchSingle"
    /\ rels = LinkSelector(Str(sA), Undefined, Str(EmptyString))
    /\ source.rel = Str(sA)
    /\ source.title = Str(sT)
    /\ ~result.value.b

\* C24: makeSelectors works on a mixed relation array element by element and keeps the
\* order: there are as many selectors as elements; the selector of a string or regular
\* expression is { rel: element, mediaType: the media type argument }, the selector of a
\* structured selector is that selector, without the media type argument.
C24_ElementWise ==
    op = "makeSelectors" =>
        /\ ~result.threw
        /\ Len(result.value) = Len(rels.items)
        /\ \A i \in 1..Len(rels.items) :
               IF rels.items[i].kind \in {"string", "regexp"}
               THEN /\ result.value[i].rel = rels.items[i]
                    /\ result.value[i].mediaType = mediaType
                    /\ result.value[i].title = Undefined
               ELSE result.value[i] = rels.items[i]

\* a selector without a media type before a string, with the media type argument 'x'
C24_Witness ==
    /\ op = "makeSelectors"
    /\ rels = Arr(<<selectorTitle, Str(sA)>>)
    /\ mediaType = Str(sX)
    /\ result.value = <<selectorTitle, LinkSelector(Str(sA), Str(sX), Undefined)>>

\* C25: the shifts of the optional arguments of get and tryGet lose nothing: whichever
\* arguments the caller leaves out, the media type that reaches the filter, the cancel
\* token of the request and the default value that answers a missing link are those of
\* the caller, and undefined when left out.
C25_ShiftingIsLossless ==
    op \in {"get", "tryGet"} =>
        /\ http.mediaType = mediaType
        /\ http.cancellable = caller.cancellable
        /\ Requested => http.requests[1].cancelToken = caller.cancellable
        /\ (op = "tryGet" /\ SupportedForHttp /\ NoUsableMatchForHttp) =>
               /\ http.outcome.value.state = "fulfilled"
               /\ http.outcome.value.value.data = defaultValue

\* tryGet(links, rel, mediaType, defaultValue), without a cancel token: the default value
\* stands in the place of the cancel token and answers the missing link
C25_Witness ==
    /\ op = "tryGet"
    /\ mediaType = Str(sX)
    /\ caller.cancellable = Undefined
    /\ defaultValue = emptyLinks
    /\ NoUsableMatchForHttp
    /\ http.cancellable = Undefined
    /\ http.outcome.value.value.data = emptyLinks

\* C26: del sends the data of the caller as put, post and patch do: when data is given to
\* del, in the place of the media type or after a media type argument (an undefined one
\* too), the DELETE request has that data as its body, and the media type, when one was
\* given, as its Content-Type.
C26_DelForwardsData ==
    (op = "del" /\ caller.data # Undefined /\ Requested) =>
        /\ http.requests[1].data = caller.data
        /\ Truthy(mediaType) => http.requests[1].contentType = mediaType

C28_EachLinkOnce ==
    FilterReturned =>
        /\ Distinct(result.value)
        /\ Len(result.value) <= Len(LinksOf(source))
        /\ \A p, q \in 1..Len(result.value) :
               p < q => FirstSelector(result.value[p]) <= FirstSelector(result.value[q])

\* the link of rel 'a' matches the string 'a' and the regular expression /a/, and stands
\* once in the result, before the link of rel 'ab', which only /a/ matches
C28_Witness ==
    /\ FilterReturned
    /\ rels = Arr(<<Str(sA), RegExp(sA, FALSE, FALSE)>>)
    /\ LinksOf(source) = <<link4, link2>>
    /\ MatchingSelectors(link2) = {1, 2}
    /\ result.value = <<link2, link4>>

MatchesARun(aLink) ==
    \E k \in 1..Len(rels.runs) :
        matchSingle(aLink, legacySelector(rels.runs[k].item, Undefined))

\* C30: the weight of no match, MaxWeight, is never the weight of a link that matches:
\* however long the relation array, a usable link that matches a selector, at whatever
\* index the first one stands, is in the result, and only the links that match no
\* selector are left out.
C30_EveryMatchIsKept ==
    op = "filterLong" =>
        \A i \in 1..Len(LinksOf(source)) :
            (Usable(LinksOf(source)[i]) /\ MatchesARun(LinksOf(source)[i]))
                <=> (\E p \in 1..Len(result.value) : result.value[p] = LinksOf(source)[i])

====
